---- MODULE Spec2Model ----
(***************************************************************************)
(* A model of the notice-search MCP server (src/index.ts): the argument   *)
(* schema, searchNotices with its 10 s abort timer, formatResults and the  *)
(* call-tool handler with its catch-all error envelope.                    *)
(*                                                                         *)
(* String literals of the source are Korean; TLA+ strings are ASCII, so    *)
(* each literal is rendered by an ASCII stand-in and the source literal is *)
(* quoted in the comment next to it.  Distinct literals keep distinct      *)
(* stand-ins.                                                              *)
(***************************************************************************)
EXTENDS Integers, Sequences, FiniteSets, TLC

\* ------------------------------------------------------------------ bounds

\* Calls in flight at once in the concurrent specification.
NumCalls == 2
\* Longest arbitrary result list the remote endpoint returns.
MaxResults == 2
\* Longest ranked result list (distinct notices 1..n) the remote returns.
MaxRanked == 6
\* The clock runs for MaxTicks ticks.
MaxTicks == 3

\* ------------------------------------------------------- program constants

\* setTimeout(() => controller.abort(), 10000)
TIMEOUT_MS == 10000
\* .default(5) of the schema, and limit: number = 5 of searchNotices
DEFAULT_LIMIT == 5
\* .min(1) and .max(50) of limit, .min(1, ...) of query
MIN_LIMIT == 1
MAX_LIMIT == 50
MIN_QUERY_LEN == 1
\* "=".repeat(60), "-".repeat(60)
RULE_WIDTH == 60

\* One tick of the clock, in milliseconds: the timeout is two ticks.
TickMs == TIMEOUT_MS \div 2
MaxTime == MaxTicks * TickMs

Min(a, b) == IF a <= b THEN a ELSE b

\* ------------------------------------------------------------ JSON values

\* A JSON value as the handler's arguments carry it: undefined (the key is
\* absent), null, a string, or a number n/d (an integer iff d divides n).
Undef == [t |-> "undefined", s |-> "", n |-> 0, d |-> 1]
Null == [t |-> "null", s |-> "", n |-> 0, d |-> 1]
Str(s) == [t |-> "string", s |-> s, n |-> 0, d |-> 1]
Num(n, d) == [t |-> "number", s |-> "", n |-> n, d |-> d]

\* Number.isInteger
IsInteger(v) == v.t = "number" /\ v.n % v.d = 0
\* v >= k and v <= k for a number v = n/d, d > 0
NumGe(v, k) == v.n >= k * v.d
NumLe(v, k) == v.n <= k * v.d

\* request.params.arguments: absent, or an object with (maybe) query, limit
NoArgs == [present |-> FALSE, query |-> Undef, limit |-> Undef]
Args(q, l) == [present |-> TRUE, query |-> q, limit |-> l]

\* ------------------------------------------------- SearchNoticeArgsSchema

Issue(path, message) == [path |-> path, message |-> message]

\* zod's name of a received type in an invalid_type message
ReceivedType(v) == v.t

\* query: z.string().min(1, "검색어는 비워둘 수 없습니다")
QueryIssues(v) ==
  IF v.t = "undefined" THEN <<Issue("query", "Required")>>
  ELSE IF v.t # "string"
    THEN <<Issue("query", "Expected string, received " \o ReceivedType(v))>>
  ELSE IF Len(v.s) < MIN_QUERY_LEN
    \* "검색어는 비워둘 수 없습니다"
    THEN <<Issue("query", "query must not be empty")>>
  ELSE <<>>

\* limit: z.number().int().min(1).max(50).optional().default(5)
\* The default replaces undefined before the inner schema sees it.
LimitDefaulted(v) == IF v.t = "undefined" THEN Num(DEFAULT_LIMIT, 1) ELSE v

\* The limit's checks with .max(50) left out.
LimitIssuesNoMax(v) ==
  LET w == LimitDefaulted(v) IN
  IF w.t # "number"
    THEN <<Issue("limit", "Expected number, received " \o ReceivedType(w))>>
  ELSE
    (IF IsInteger(w) THEN <<>>
       ELSE <<Issue("limit", "Expected integer, received float")>>)
    \o (IF NumGe(w, MIN_LIMIT) THEN <<>>
       ELSE <<Issue("limit", "Number must be greater than or equal to "
                              \o ToString(MIN_LIMIT))>>)

\* z.number() returns on a wrong type; its checks all run, each adding an issue.
LimitIssues(v) ==
  LET w == LimitDefaulted(v) IN
  IF w.t # "number"
    THEN <<Issue("limit", "Expected number, received " \o ReceivedType(w))>>
  ELSE
    (IF IsInteger(w) THEN <<>>
       ELSE <<Issue("limit", "Expected integer, received float")>>)
    \o (IF NumGe(w, MIN_LIMIT) THEN <<>>
       ELSE <<Issue("limit", "Number must be greater than or equal to "
                              \o ToString(MIN_LIMIT))>>)
    \o (IF NumLe(w, MAX_LIMIT) THEN <<>>
       ELSE <<Issue("limit", "Number must be less than or equal to "
                              \o ToString(MAX_LIMIT))>>)

\* SearchNoticeArgsSchema.safeParse(args)
safeParse(args) ==
  LET issues == IF ~args.present THEN <<Issue("", "Required")>>
                ELSE QueryIssues(args.query) \o LimitIssues(args.limit)
      ok == issues = <<>>
  IN [success |-> ok,
      issues |-> issues,
      query |-> IF ok THEN args.query.s ELSE "",
      limit |-> IF ok THEN LimitDefaulted(args.limit).n \div LimitDefaulted(args.limit).d
                ELSE 0]

\* parsed.error.errors.map(e => `${e.path.join(".")}: ${e.message}`).join(", ")
RECURSIVE JoinIssues(_)
JoinIssues(issues) ==
  IF issues = <<>> THEN ""
  ELSE LET e == Head(issues)
           one == e.path \o ": " \o e.message
       IN IF Len(issues) = 1 THEN one
          ELSE one \o ", " \o JoinIssues(Tail(issues))

\* ----------------------------------------------------------------- errors

\* A thrown value: an Error instance (inst) with a name and a message, or any
\* other value, of which only String(value) is read.
ErrorOf(name, message) == [inst |-> TRUE, name |-> name, message |-> message, str |-> ""]
NonError(str) == [inst |-> FALSE, name |-> "", message |-> "", str |-> str]
NoError == [inst |-> FALSE, name |-> "", message |-> "", str |-> "<none>"]

\* The result of running a piece of code: a value returned or an error thrown.
Returned(v) == [threw |-> FALSE, value |-> v, error |-> NoError]
Threw(e) == [threw |-> TRUE, value |-> <<>>, error |-> e]

\* -------------------------------------------------- the remote's response

\* An element of a results array: a NoticeResult (score in thousandths, so
\* 873 is 0.873), an object without metadata, or null.
Notice(k) ==
  [t |-> "notice", title |-> "Grant " \o ToString(k), url |-> "http://x/" \o ToString(k),
   score |-> 1000 - 127 * k, organization |-> "Org", region |-> "Seoul",
   startupHistory |-> ToString(k) \o "yr"]
NoMetadata ==
  [t |-> "nometa", title |-> "Loose", url |-> "http://y", score |-> 5,
   organization |-> "", region |-> "", startupHistory |-> ""]
NullEntry ==
  [t |-> "null", title |-> "", url |-> "", score |-> 0,
   organization |-> "", region |-> "", startupHistory |-> ""]

\* The result lists the remote endpoint may return: the ranked lists
\* <<Notice(1), ..., Notice(n)>>, and every list of at most MaxResults entries.
RankedList(n) == [k \in 1..n |-> Notice(k)]
Entries == {Notice(1), Notice(2), NoMetadata, NullEntry}
ShortLists == UNION {[1..n -> Entries] : n \in 0..MaxResults}
ResultLists == ShortLists \cup {RankedList(n) : n \in 0..MaxRanked}

\* data.results: absent, a falsy value, a truthy value that is no array, or an array
ResultsField(t, items) == [t |-> t, items |-> items]
NonArrayKinds == {"absent", "null", "zero", "emptystring", "string", "object"}
Falsy(r) == r.t \in {"absent", "null", "zero", "emptystring"}
IsArray(r) == r.t = "array"

\* The value response.json() resolves to: null, a number, a string, an array
\* (none of which has a results property), or an object.
Body(t, results) == [t |-> t, results |-> results]
NonObjectBodies ==
  {Body(t, ResultsField("absent", <<>>)) : t \in {"null", "number", "string", "array"}}
ObjectBodies(lists) ==
  {Body("object", ResultsField(t, <<>>)) : t \in NonArrayKinds}
    \cup {Body("object", ResultsField("array", R)) : R \in lists}
NoBody == Body("none", ResultsField("absent", <<>>))

\* The success statuses and the others; response.ok is 200..299.
Statuses == {200, 201, 404, 500}
ResponseOk(status) == status >= 200 /\ status <= 299
StatusText(status) ==
  CASE status = 200 -> "OK"
    [] status = 201 -> "Created"
    [] status = 404 -> "Not Found"
    [] OTHER -> "Internal Server Error"

\* ---------------------------------------------------------- searchNotices

\* ERR_TIMEOUT is "요청 타임아웃: 검색 서버에서 응답이 없습니다"
ERR_TIMEOUT == "request timeout: no response from the search server"
\* ERR_FORMAT is "잘못된 응답 형식입니다"
ERR_FORMAT == "invalid response format"
\* "API 응답 오류: "
ERR_STATUS == "API response error: "
\* "공고 검색 중 오류 발생: "
ERR_SEARCH == "error while searching notices: "

\* The request body with the limit forwarded upstream.
RequestBodyWithLimit(query, limit) == [query |-> query, limit |-> limit]

\* body: JSON.stringify({ query }) of the one request searchNotices sends
RequestBody(query, limit) == [query |-> query]

\* The slice taken one entry too long.
SliceOffByOne(R, limit) == SubSeq(R, 1, Min(limit + 1, Len(R)))

\* data.results.slice(0, limit)
Slice(R, limit) == SubSeq(R, 1, Min(limit, Len(R)))

\* if (!response.ok) throw new Error(`API 응답 오류: ${status} ${statusText}`)
CheckStatus(status) ==
  IF ~ResponseOk(status)
    THEN Threw(ErrorOf("Error", ERR_STATUS \o ToString(status) \o " " \o StatusText(status)))
    ELSE Returned(<<>>)

\* if (!data.results || !Array.isArray(data.results)) throw ...; return slice.
\* Reading .results of null throws a TypeError before the test is made.
CheckBody(data, limit) ==
  IF data.t = "null"
    THEN Threw(ErrorOf("TypeError", "Cannot read properties of null (reading 'results')"))
  ELSE IF Falsy(data.results) \/ ~IsArray(data.results)
    THEN Threw(ErrorOf("Error", ERR_FORMAT))
  ELSE Returned(Slice(data.results.items, limit))

\* catch (error) { ... } of searchNotices: what it throws for what it caught
SearchCatch(error) ==
  IF error.inst
    THEN IF error.name = "AbortError" THEN ErrorOf("Error", ERR_TIMEOUT) ELSE error
    ELSE ErrorOf("Error", ERR_SEARCH \o error.str)

\* What fetch or response.json() may reject with, other than the abort.
AbortError == ErrorOf("AbortError", "This operation was aborted")
FetchFailures == {ErrorOf("TypeError", "fetch failed"), NonError("ECONNRESET")}
JsonFailures == {ErrorOf("SyntaxError", "Unexpected token < in JSON at position 0")}

\* ---------------------------------------------------------- formatResults

RECURSIVE Repeat(_, _)
Repeat(s, n) == IF n = 0 THEN "" ELSE s \o Repeat(s, n - 1)

\* (result.score * 100).toFixed(1), the score given in thousandths
ScorePercent(score) == ToString(score \div 10) \o "." \o ToString(score % 10)

\* One block of the report; the labels are 기관, 지역, 대상, 유사도.
Block(result, index) ==
  "\n[" \o ToString(index + 1) \o "] " \o result.title
    \o "\nURL: " \o result.url
    \o "\norg: " \o result.organization
    \o "\nregion: " \o result.region
    \o "\ntarget: " \o result.startupHistory
    \o "\nsimilarity: " \o ScorePercent(result.score) \o "%"

Divider == "\n\n" \o Repeat("-", RULE_WIDTH) \o "\n"

RECURSIVE JoinBlocks(_, _)
JoinBlocks(results, from) ==
  IF from > Len(results) THEN ""
  ELSE Block(results[from], from - 1)
         \o (IF from = Len(results) THEN "" ELSE Divider \o JoinBlocks(results, from + 1))

\* The first entry the map callback cannot render: null has no score to read,
\* and an entry without metadata has no metadata.organization.
FirstBad(results) ==
  LET bad == {i \in 1..Len(results) : results[i].t # "notice"}
  IN IF bad = {} THEN 0 ELSE CHOOSE i \in bad : \A j \in bad : i <= j

\* `"${query}"에 대한 검색 결과가 없습니다.`
EmptyReport(query) == "\"" \o query \o "\": no results found."
\* `총 ${results.length}개의 공고를 찾았습니다.\n${"=".repeat(60)}\n`
Header(n) == "total " \o ToString(n) \o " notices found.\n" \o Repeat("=", RULE_WIDTH) \o "\n"

formatResults(results, query) ==
  IF Len(results) = 0 THEN Returned(EmptyReport(query))
  ELSE IF FirstBad(results) # 0
    THEN Threw(ErrorOf("TypeError",
           IF results[FirstBad(results)].t = "null"
             THEN "Cannot read properties of null (reading 'score')"
             ELSE "Cannot read properties of undefined (reading 'organization')"))
  ELSE Returned(Header(Len(results)) \o JoinBlocks(results, 1))

\* -------------------------------------------------- the call-tool handler

TOOL_NAME == "search_notices"
\* ERROR_MARKER is "오류: "
ERROR_MARKER == "ERROR: "
\* "알 수 없는 도구: "
ERR_UNKNOWN_TOOL == "unknown tool: "
\* "잘못된 인자: "
ERR_BAD_ARGS == "invalid arguments: "

TextBlock(text) == [type |-> "text", text |-> text]

\* The success envelope built with an explicit isError flag.
SuccessEnvelopeFlagged(formatted) ==
  [content |-> <<[type |-> "text", text |-> formatted]>>, isError |-> FALSE]

\* return { content: [{ type: "text", text: formatted }] }
SuccessEnvelope(formatted) == [content |-> <<TextBlock(formatted)>>]

\* error instanceof Error ? error.message : String(error)
ErrorMessage(error) == IF error.inst THEN error.message ELSE error.str

\* catch (error) { return { content: [...오류: message], isError: true } }
ErrorEnvelope(error) ==
  [content |-> <<TextBlock(ERROR_MARKER \o ErrorMessage(error))>>, isError |-> TRUE]

NoEnvelope == [content |-> <<>>]

\* The handler without its name test: every tool name runs the search.
DispatchAnyName(name, args) ==
  LET parsed == safeParse(args) IN
  IF ~parsed.success
    THEN Threw(ErrorOf("Error", ERR_BAD_ARGS \o JoinIssues(parsed.issues)))
    ELSE Returned(parsed)

\* The handler up to its first await: the name test and the validation.
\* Returned(parsed) means searchNotices is called next.
Dispatch(name, args) ==
  IF name = TOOL_NAME
    THEN LET parsed == safeParse(args) IN
         IF ~parsed.success
           THEN Threw(ErrorOf("Error", ERR_BAD_ARGS \o JoinIssues(parsed.issues)))
           ELSE Returned(parsed)
    ELSE Threw(ErrorOf("Error", ERR_UNKNOWN_TOOL \o name))

\* The handler once searchNotices has returned `results`.
Render(results, query) ==
  LET formatted == formatResults(results, query) IN
  IF formatted.threw THEN formatted ELSE Returned(SuccessEnvelope(formatted.value))

\* The handler without its catch: what its try block throws leaves it.
FinishUncaught(outcome) ==
  IF outcome.threw
    THEN [pc |-> "threw", envelope |-> [content |-> <<>>]]
    ELSE [pc |-> "returned", envelope |-> outcome.value]

\* How the handler ends for an outcome of its try block: an envelope returned
\* (the catch turns every throw into one), never a throw of its own.
Finish(outcome) ==
  IF outcome.threw
    THEN [pc |-> "returned", envelope |-> ErrorEnvelope(outcome.error)]
    ELSE [pc |-> "returned", envelope |-> outcome.value]

\* ------------------------------------------------------------------ state

VARIABLES
  pc,        \* per call: "idle", "awaitFetch", "awaitJson", "returned", "threw"
  request,   \* per call: request.params, [name, args]
  parsed,    \* per call: parsed.data, the validated query and limit
  timer,     \* per call: timeoutId's timer, "none", "armed", "cleared", "fired"
  deadline,  \* per call: when the timer is due
  aborted,   \* per call: controller.signal.aborted
  sent,      \* per call: the bodies of the requests sent to the remote endpoint
  remote,    \* per call: what the remote endpoint has delivered so far
  search,    \* per call: how searchNotices ended
  raised,    \* per call: the error the handler's catch caught
  envelope,  \* per call: the value the handler returned
  now        \* the clock, in milliseconds

vars == <<pc, request, parsed, timer, deadline, aborted, sent, remote, search,
          raised, envelope, now>>

Calls == DOMAIN pc

NoRequest == [name |-> "", args |-> NoArgs]
NoParsed == [success |-> FALSE, issues |-> <<>>, query |-> "", limit |-> 0]
NoOutcome == [threw |-> FALSE, value |-> <<>>, error |-> NoError]

\* What the remote endpoint delivered: the status line (0: none yet), the
\* parsed body and when it was complete (-1: not yet), the transport failure.
Silent == [status |-> 0, body |-> NoBody, completeAt |-> -1, failure |-> NoError]

\* The requests a caller may make.
Names == {TOOL_NAME, "list_notices"}
Queries == {Undef, Num(7, 1), Str(""), Str("seoul"), Str("ai")}
Limits == {Undef, Null, Str("5"), Num(0, 1), Num(1, 2), Num(1, 1), Num(2, 1),
           Num(3, 2), Num(MAX_LIMIT, 1), Num(MAX_LIMIT + 1, 1)}
ArgsPool == {NoArgs} \cup {Args(q, l) : q \in Queries, l \in Limits}
Requests == [name : Names, args : ArgsPool]
Bodies == NonObjectBodies \cup ObjectBodies(ResultLists)

\* The pools of the concurrent specification: one valid request, one
\* unknown tool; a success and a failure of each stage.
ConcRequests ==
  {[name |-> TOOL_NAME, args |-> Args(Str("seoul"), Num(1, 1))],
   [name |-> "list_notices", args |-> NoArgs]}
ConcStatuses == {200, 500}
ConcBodies == {Body("null", ResultsField("absent", <<>>)),
               Body("object", ResultsField("array", RankedList(2)))}

InitCalls(calls) ==
  /\ pc = [i \in calls |-> "idle"]
  /\ request = [i \in calls |-> NoRequest]
  /\ parsed = [i \in calls |-> NoParsed]
  /\ timer = [i \in calls |-> "none"]
  /\ deadline = [i \in calls |-> 0]
  /\ aborted = [i \in calls |-> FALSE]
  /\ sent = [i \in calls |-> <<>>]
  /\ remote = [i \in calls |-> Silent]
  /\ search = [i \in calls |-> NoOutcome]
  /\ raised = [i \in calls |-> NoError]
  /\ envelope = [i \in calls |-> NoEnvelope]
  /\ now = 0

Init == InitCalls({1})
InitConc == InitCalls(1..NumCalls)

\* ---------------------------------------------------------------- actions

\* One controller shared by every call (a module-level AbortController).
AbortTargetsShared(i) == DOMAIN pc

\* const controller = new AbortController(): each call of searchNotices has
\* its own, so the timer's controller.abort() aborts that call's fetch alone.
AbortTargets(i) == {i}

\* clearTimeout(timeoutId)
ClearTimeout(t) == IF t = "armed" THEN "cleared" ELSE t

\* The handler ends with `outcome` of its try block.
End(i, outcome) ==
  /\ pc' = [pc EXCEPT ![i] = Finish(outcome).pc]
  /\ envelope' = [envelope EXCEPT ![i] = Finish(outcome).envelope]
  /\ raised' = [raised EXCEPT ![i] = IF outcome.threw THEN outcome.error ELSE NoError]

\* searchNotices ends by throwing what its catch makes of `error`.
SearchThrows(i, error) ==
  /\ search' = [search EXCEPT ![i] = Threw(SearchCatch(error))]
  /\ End(i, Threw(SearchCatch(error)))

\* The handler is called with a request and runs to its first await: it
\* rejects the request, or calls searchNotices, which arms the timer and
\* issues the fetch.
Invoke(i, reqs) ==
  /\ pc[i] = "idle"
  /\ \E r \in reqs :
       LET d == Dispatch(r.name, r.args) IN
       /\ request' = [request EXCEPT ![i] = r]
       /\ IF d.threw
            THEN /\ End(i, d)
                 /\ UNCHANGED <<parsed, timer, deadline, sent>>
            ELSE /\ parsed' = [parsed EXCEPT ![i] = d.value]
                 /\ timer' = [timer EXCEPT ![i] = "armed"]
                 /\ deadline' = [deadline EXCEPT ![i] = now + TIMEOUT_MS]
                 /\ sent' = [sent EXCEPT ![i] =
                               Append(@, RequestBody(d.value.query, d.value.limit))]
                 /\ pc' = [pc EXCEPT ![i] = "awaitFetch"]
                 /\ UNCHANGED <<raised, envelope>>
  /\ UNCHANGED <<aborted, remote, search, now>>

\* fetch resolves with the response's status line: the timer is cleared, and
\* a status that is not ok is thrown.
FetchResolve(i, statuses) ==
  /\ pc[i] = "awaitFetch"
  /\ ~aborted[i]
  /\ \E status \in statuses :
       /\ remote' = [remote EXCEPT ![i].status = status]
       /\ timer' = [timer EXCEPT ![i] = ClearTimeout(@)]
       /\ IF CheckStatus(status).threw
            THEN SearchThrows(i, CheckStatus(status).error)
            ELSE /\ pc' = [pc EXCEPT ![i] = "awaitJson"]
                 /\ UNCHANGED <<search, raised, envelope>>
  /\ UNCHANGED <<request, parsed, deadline, aborted, sent, now>>

\* fetch rejects: the transport failed, or the signal was aborted.
FetchReject(i) ==
  /\ pc[i] = "awaitFetch"
  /\ \E e \in (IF aborted[i] THEN {AbortError} ELSE FetchFailures) :
       /\ remote' = [remote EXCEPT ![i].failure = e]
       /\ SearchThrows(i, e)
  /\ UNCHANGED <<request, parsed, timer, deadline, aborted, sent, now>>

\* response.json() resolves with the parsed body: searchNotices checks and
\* slices it, and the handler formats the results and returns.
JsonResolve(i, bodies) ==
  /\ pc[i] = "awaitJson"
  /\ ~aborted[i]
  /\ \E data \in bodies :
       LET checked == CheckBody(data, parsed[i].limit) IN
       /\ remote' = [remote EXCEPT ![i].body = data, ![i].completeAt = now]
       /\ IF checked.threw
            THEN SearchThrows(i, checked.error)
            ELSE /\ search' = [search EXCEPT ![i] = checked]
                 /\ End(i, Render(checked.value, parsed[i].query))
  /\ UNCHANGED <<request, parsed, timer, deadline, aborted, sent, now>>

\* response.json() rejects: the body is no JSON, or the signal was aborted.
JsonReject(i) ==
  /\ pc[i] = "awaitJson"
  /\ \E e \in (IF aborted[i] THEN {AbortError} ELSE JsonFailures) :
       /\ remote' = [remote EXCEPT ![i].failure = e]
       /\ SearchThrows(i, e)
  /\ UNCHANGED <<request, parsed, timer, deadline, aborted, sent, now>>

\* The timer's callback, () => controller.abort(), once the timer is due.
TimerFire(i) ==
  /\ timer[i] = "armed"
  /\ now >= deadline[i]
  /\ timer' = [timer EXCEPT ![i] = "fired"]
  /\ aborted' = [j \in Calls |-> aborted[j] \/ j \in AbortTargets(i)]
  /\ UNCHANGED <<pc, request, parsed, deadline, sent, remote, search, raised,
                 envelope, now>>

\* Time passes by one tick, unless a due timer or the rejection of an aborted
\* fetch is still to run.
Tick ==
  /\ now < MaxTime
  /\ \A i \in Calls : ~(timer[i] = "armed" /\ deadline[i] <= now)
  /\ \A i \in Calls : ~(aborted[i] /\ pc[i] \in {"awaitFetch", "awaitJson"})
  /\ now' = now + TickMs
  /\ UNCHANGED <<pc, request, parsed, timer, deadline, aborted, sent, remote,
                 search, raised, envelope>>

Next ==
  \/ \E i \in Calls : Invoke(i, Requests)
  \/ \E i \in Calls : FetchResolve(i, Statuses)
  \/ \E i \in Calls : FetchReject(i)
  \/ \E i \in Calls : JsonResolve(i, Bodies)
  \/ \E i \in Calls : JsonReject(i)
  \/ \E i \in Calls : TimerFire(i)
  \/ Tick

NextConc ==
  \/ \E i \in Calls : Invoke(i, ConcRequests)
  \/ \E i \in Calls : FetchResolve(i, ConcStatuses)
  \/ \E i \in Calls : FetchReject(i)
  \/ \E i \in Calls : JsonResolve(i, ConcBodies)
  \/ \E i \in Calls : JsonReject(i)
  \/ \E i \in Calls : TimerFire(i)
  \/ Tick

\* One call at a time, every request and every response.
Spec == Init /\ [][Next]_vars
\* NumCalls calls in flight at once.
SpecConc == InitConc /\ [][NextConc]_vars

\* ----------------------------------------------------------------- claims

\* What the claims read of a call.
Started(i) == pc[i] # "idle"
Done(i) == pc[i] \in {"returned", "threw"}
NameKnown(i) == request[i].name = "search_notices"
ArgsValid(i) == safeParse(request[i].args).success
\* The remote answered with a success status and an object whose results is
\* a sequence.
HasResultList(i) ==
  /\ remote[i].body.t = "object"
  /\ remote[i].body.results.t = "array"
RemoteList(i) == remote[i].body.results.items

\* C1: the handler never ends by throwing; whenever the name test, the
\* validation, searchNotices or formatResults raises an error, the handler
\* returns an envelope with isError = TRUE and exactly one text block, the
\* error marker followed by the error's message.
C1_AlwaysEnvelope ==
  \A i \in Calls :
    /\ pc[i] # "threw"
    /\ (Started(i) /\ (~NameKnown(i) \/ ~ArgsValid(i)))
         => pc[i] = "returned" /\ raised[i] # NoError
    /\ search[i].threw => pc[i] = "returned" /\ raised[i] = search[i].error
    /\ (pc[i] = "returned" /\ ~search[i].threw /\ HasResultList(i)
          /\ \E k \in 1..Len(search[i].value) : search[i].value[k].t # "notice")
         => raised[i] # NoError
    /\ (pc[i] = "returned" /\ raised[i] # NoError)
         => /\ raised[i].inst
            /\ envelope[i] =
                 [content |-> <<[type |-> "text",
                                 text |-> "ERROR: " \o raised[i].message]>>,
                  isError |-> TRUE]

\* formatResults threw on a result list of searchNotices, and the handler
\* returned the error envelope.
C1_Witness ==
  \E i \in Calls :
    /\ pc[i] = "returned"
    /\ ~search[i].threw /\ HasResultList(i)
    /\ raised[i].name = "TypeError"
    /\ envelope[i].content[1].text
         = "ERROR: Cannot read properties of undefined (reading 'organization')"

\* C3: for a valid (query, limit) and a success response whose results is a
\* sequence R, searchNotices returns the first min(limit, |R|) entries of R
\* in R's order: at most limit entries, a prefix of R, nothing altered.
C3_PrefixOfRemote ==
  \A i \in Calls :
    (Done(i) /\ HasResultList(i)) =>
      LET R == RemoteList(i)
          out == search[i].value
          limit == parsed[i].limit
      IN /\ ~search[i].threw
         /\ Len(out) <= limit
         /\ Len(out) = (IF limit <= Len(R) THEN limit ELSE Len(R))
         /\ \A k \in 1..Len(out) : out[k] = R[k]

\* The remote returned more entries than the limit, and searchNotices cut them.
C3_Witness ==
  \E i \in Calls :
    /\ Done(i) /\ HasResultList(i)
    /\ parsed[i].limit = 2
    /\ Len(RemoteList(i)) = 6
    /\ search[i].value = <<Notice(1), Notice(2)>>

\* C5: an invocation rejected before the search step (the arguments fail the
\* validation, or the tool name is not "search_notices") sends no request to
\* the remote endpoint and ends with an error envelope.
C5_RejectedSendsNothing ==
  \A i \in Calls :
    (Started(i) /\ (~NameKnown(i) \/ ~ArgsValid(i))) =>
      /\ sent[i] = <<>>
      /\ timer[i] = "none"
      /\ remote[i] = Silent
      /\ pc[i] = "returned"
      /\ "isError" \in DOMAIN envelope[i] /\ envelope[i].isError = TRUE

\* An unknown tool was called with arguments that would have been valid.
C5_Witness ==
  \E i \in Calls :
    /\ pc[i] = "returned"
    /\ ~NameKnown(i) /\ ArgsValid(i)
    /\ sent[i] = <<>>
    /\ envelope[i].content[1].text = "ERROR: unknown tool: list_notices"

\* C6: an invocation of search_notices with valid arguments sends exactly
\* one request, whose body carries the query and nothing else, and sends no
\* other whatever the outcome (timeout, status, malformed body, failure).
C6_ExactlyOneRequest ==
  \A i \in Calls :
    /\ Len(sent[i]) <= 1
    /\ (Started(i) /\ NameKnown(i) /\ ArgsValid(i))
         => sent[i] = <<[query |-> request[i].args.query.s]>>

\* A call with an explicit limit that timed out, with its one request sent.
C6_Witness ==
  \E i \in Calls :
    /\ pc[i] = "returned"
    /\ request[i].args.limit = Num(2, 1)
    /\ search[i].threw /\ aborted[i]
    /\ sent[i] = <<[query |-> "ai"]>>

\* C8: the validator accepts exactly when query is a string of length >= 1
\* and limit is omitted or an integer in [1, 50]; the normalized limit is the
\* supplied one, or 5 when omitted, so that a call without limit returns at
\* most 5 results.
C8_Acceptable(a) ==
  /\ a.present
  /\ a.query.t = "string" /\ Len(a.query.s) >= 1
  /\ \/ a.limit.t = "undefined"
     \/ /\ a.limit.t = "number"
        /\ \E k \in 1..50 : a.limit.n = k * a.limit.d

\* C8, over every request made: a call is accepted (parsed, and its request
\* sent) exactly when its arguments are acceptable, with the limit normalized.
C8_ValidatorContract ==
  \A i \in Calls :
    (Started(i) /\ NameKnown(i)) =>
      LET a == request[i].args IN
      /\ parsed[i].success <=> C8_Acceptable(a)
      /\ sent[i] # <<>> <=> C8_Acceptable(a)
      /\ C8_Acceptable(a) =>
           /\ parsed[i].query = a.query.s
           /\ a.limit.t = "undefined" => parsed[i].limit = 5
           /\ a.limit.t = "number" => parsed[i].limit * a.limit.d = a.limit.n
           /\ (a.limit.t = "undefined" /\ ~search[i].threw)
                => Len(search[i].value) <= 5
      /\ ~C8_Acceptable(a) =>
           /\ pc[i] = "returned"
           /\ "isError" \in DOMAIN envelope[i]

\* A call without limit to which the remote returned 6 entries got 5.
C8_Witness ==
  \E i \in Calls :
    /\ pc[i] = "returned"
    /\ request[i].args.limit = Undef
    /\ HasResultList(i) /\ Len(RemoteList(i)) = 6
    /\ Len(search[i].value) = 5

\* C2: a remote call that has not delivered its complete response (status
\* and parsed body) 10 seconds after the request was issued is aborted and
\* searchNotices fails with the timeout message; no call is suspended on the
\* remote call for longer than the timeout window.
C2_HardTimeout ==
  \A i \in Calls :
    /\ pc[i] \in {"awaitFetch", "awaitJson"} => now <= deadline[i]
    /\ (Done(i) /\ remote[i].completeAt > deadline[i])
         => search[i] = Threw(ErrorOf("Error", ERR_TIMEOUT))

\* C4: a success-status response whose body is anything but an object with
\* a results sequence (results absent or no array, or a body that is no
\* object, such as null) makes searchNotices fail with the malformed-response
\* error, and with no other.
C4_MalformedRejected ==
  \A i \in Calls :
    (Done(i) /\ remote[i].body # NoBody /\ ~HasResultList(i))
      => search[i] = Threw(ErrorOf("Error", ERR_FORMAT))

C7_Succeeds(i) ==
  /\ pc[i] = "returned"
  /\ NameKnown(i) /\ ArgsValid(i)
  /\ HasResultList(i)
  /\ \A k \in 1..Len(search[i].value) : search[i].value[k].t = "notice"

C9_OwnTimerOnly ==
  \A i \in Calls :
    /\ aborted[i] => timer[i] = "fired" /\ now >= deadline[i]
    /\ search[i] = Threw(ErrorOf("Error", ERR_TIMEOUT)) => aborted[i]

\* Equal requests and equal remote responses give equal envelopes.
C9_OwnInputsOnly ==
  \A i, j \in Calls :
    (pc[i] = "returned" /\ pc[j] = "returned"
       /\ request[i] = request[j]
       /\ [remote[i] EXCEPT !.completeAt = 0] = [remote[j] EXCEPT !.completeAt = 0])
      => envelope[i] = envelope[j]

\* The step of one call's timer leaves every other call as it was.
C9_TimerStep ==
  \A i \in Calls :
    (timer[i] = "armed" /\ timer'[i] = "fired") =>
      \A j \in Calls \ {i} :
        /\ aborted'[j] = aborted[j]
        /\ pc'[j] = pc[j]
        /\ search'[j] = search[j]
        /\ envelope'[j] = envelope[j]

\* C9: the three parts together, in every state and at every step.
C9_Isolation ==
  /\ [](C9_OwnTimerOnly /\ C9_OwnInputsOnly)
  /\ [][C9_TimerStep]_vars

\* One call timed out while another, issued later, was still waiting for
\* its response and went on to return its report.
C9_Witness ==
  \E i, j \in Calls :
    /\ i # j
    /\ search[i] = Threw(ErrorOf("Error", ERR_TIMEOUT))
    /\ pc[j] = "returned" /\ ~aborted[j]
    /\ HasResultList(j) /\ raised[j] = NoError
    /\ remote[j].completeAt >= deadline[i]

\* C10: the timer is disarmed on every path by which searchNotices ends:
\* once the call has returned or thrown, its timer is no longer armed.
C10_TimerDisarmed ==
  \A i \in Calls : Done(i) => timer[i] # "armed"

====
